---- MODULE Spec2Model ----
(***************************************************************************)
(* ShorterResultsPlugin (ariadne_codegen/plugins/shorter_results.py).      *)
(*                                                                         *)
(* The plugin keeps two tables, class_dict and extended_imports, and is    *)
(* driven by the host through three hooks: generate_result_class,          *)
(* generate_client_method and generate_client_module.  Syntax trees are    *)
(* records tagged with the ast node class in the field "kind".             *)
(*                                                                         *)
(* A Python str that may hold source text (an ast.Name id, a class name)   *)
(* is a sequence of tokens, so that ast.literal_eval can be modelled by    *)
(* what it does to the text: Id("User") is the text  User  and Lit("User") *)
(* is the text  "User"  (a quoted forward reference).                      *)
(***************************************************************************)
EXTENDS Naturals, Sequences, FiniteSets, TLC

VARIABLES
    class_dict,        \* self.class_dict: class name -> ast.ClassDef
    extended_imports,  \* self.extended_imports: method name -> set of class names
    call,              \* the last hook call: [op, arg, ret, raised]
    stack,             \* call stack of a running _get_all_fields (SpecResolve)
    resolved           \* outcome of the last _get_all_fields run (SpecResolve)

vars == <<class_dict, extended_imports, call, stack, resolved>>

----------------------------------------------------------------------------
(* Text of a str *)

DQ == "\""
Id(s) == <<s>>
Lit(s) == <<DQ, s, DQ>>

----------------------------------------------------------------------------
(* ast nodes *)

NoneV == [kind |-> "None"]
Name(id) == [kind |-> "Name", id |-> id]
Subscript(value, slice) == [kind |-> "Subscript", value |-> value, slice |-> slice]
Tuple(elts) == [kind |-> "Tuple", elts |-> elts]
Constant(value) == [kind |-> "Constant", value |-> value]
Attribute(value, attr) == [kind |-> "Attribute", value |-> value, attr |-> attr]
Yield(value) == [kind |-> "Yield", value |-> value]
\* ast.expr(): a bare expression node with no fields
EmptyExpr == [kind |-> "expr"]

Return(value) == [kind |-> "Return", value |-> value]
Expr(value) == [kind |-> "Expr", value |-> value]
Pass == [kind |-> "Pass"]
AsyncFor(target, iter, body) ==
    [kind |-> "AsyncFor", target |-> target, iter |-> iter, body |-> body]
AnnAssign(target, annotation) ==
    [kind |-> "AnnAssign", target |-> target, annotation |-> annotation]
ImportFrom(module, names) == [kind |-> "ImportFrom", module |-> module, names |-> names]
Import(names) == [kind |-> "Import", names |-> names]
alias(name) == [kind |-> "alias", name |-> name]
ClassDef(name, bases, body) ==
    [kind |-> "ClassDef", name |-> name, bases |-> bases, body |-> body]
FunctionDef(name, returns, body) ==
    [kind |-> "FunctionDef", name |-> name, returns |-> returns, body |-> body]

\* codegen helpers used by the plugin
generate_name(s) == Name(Id(s))
generate_subscript(value, slice) == Subscript(value, slice)
generate_attribute(value, attr) == Attribute(value, attr)
generate_yield(value) == Yield(value)
generate_expr(value) == Expr(value)
generate_return(value) == Return(value)
generate_async_for(target, iter, body) == AsyncFor(target, iter, <<body>>)

----------------------------------------------------------------------------
(* Sequences *)

RECURSIVE Concat(_)
Concat(ss) == IF Len(ss) = 0 THEN <<>> ELSE Head(ss) \o Concat(Tail(ss))

Perms(S) ==
    {p \in [1..Cardinality(S) -> S] : \A i, j \in 1..Cardinality(S) : p[i] = p[j] => i = j}

----------------------------------------------------------------------------
(* Module-level functions of shorter_results.py *)

\* ast.literal_eval on the text of a Name id: a quoted literal evaluates to
\* the text between the quotes; an identifier is not a literal (ValueError,
\* ok = FALSE).  The ids the host writes are identifiers and quoted
\* identifiers.
literal_eval(text) ==
    IF Len(text) >= 2 /\ text[1] = DQ /\ text[Len(text)] = DQ
    THEN [ok |-> TRUE, value |-> SubSeq(text, 2, Len(text) - 1)]
    ELSE [ok |-> FALSE, value |-> text]

\* _update_node returns (node, ids).  Name, Subscript and Tuple nodes are
\* changed in place and returned; for any other node a new ast.expr() is
\* returned and the node itself is left alone.
RECURSIVE _update_node(_)
_update_node(node) ==
    CASE node.kind = "Name" ->
           LET ev == literal_eval(node.id)
               id == IF ev.ok THEN ev.value ELSE node.id
           IN  [node |-> [node EXCEPT !.id = id], ids |-> <<id>>]
      [] node.kind = "Subscript" ->
           LET r == _update_node(node.slice)
           IN  [node |-> [node EXCEPT !.slice = r.node], ids |-> r.ids]
      [] node.kind = "Tuple" ->
           LET rs == [i \in 1..Len(node.elts) |-> _update_node(node.elts[i])]
           IN  [node |-> [node EXCEPT !.elts = [i \in 1..Len(node.elts) |-> rs[i].node]],
                ids  |-> Concat([i \in 1..Len(node.elts) |-> rs[i].ids])]
      [] OTHER -> [node |-> EmptyExpr, ids |-> <<>>]

\* What the object `node` holds after _update_node(node) has run on it.
UpdatedInPlace(node) ==
    IF node.kind \in {"Name", "Subscript", "Tuple"} THEN _update_node(node).node ELSE node

\* _get_all_fields returns the AnnAssign objects themselves; an object is
\* named here by its place <<class name, index in the class body>>.
RECURSIVE _get_all_fields(_, _)
_get_all_fields(class_def, cd) ==
    LET from_base(base) ==
            IF base.kind # "Name" THEN <<>>
            ELSE IF base.id \notin DOMAIN cd THEN <<>>
            ELSE _get_all_fields(cd[base.id], cd)
        inherited == Concat([i \in 1..Len(class_def.bases) |-> from_base(class_def.bases[i])])
        own == SelectSeq([i \in 1..Len(class_def.body) |-> <<class_def.name, i>>],
                         LAMBDA at : class_def.body[at[2]].kind = "AnnAssign")
    IN  inherited \o own

FieldAt(cd, at) == cd[at[1]].body[at[2]]

\* _return_or_yield_node_and_class: found = FALSE stands for None.  cd is
\* class_dict as the call leaves it (the annotation is rewritten in place).
\* The node returned for a Name, Subscript or Tuple annotation is the
\* annotation object itself; a rewritten annotation is not changed by a
\* later rewrite (RewriteSettles), so a method that holds the object holds
\* this value.
NotFound(cd) == [found |-> FALSE, cd |-> cd]

\* _return_or_yield_node_and_class with `len(fields) < 1` for `len(fields) != 1`
_return_or_yield_node_and_class_lt1(current_return_class, cd) ==
    IF current_return_class \notin DOMAIN cd THEN NotFound(cd)
    ELSE LET fields == _get_all_fields(cd[current_return_class], cd) IN
         IF Len(fields) < 1 THEN NotFound(cd)
         ELSE LET single_field == FieldAt(cd, fields[1])
                  r == _update_node(single_field.annotation) IN
              [found |-> TRUE,
               node |-> r.node,
               classes |-> r.ids,
               field |-> single_field.target.id,
               cd |-> [cd EXCEPT ![fields[1][1]].body[fields[1][2]].annotation =
                                     UpdatedInPlace(single_field.annotation)]]

_return_or_yield_node_and_class(current_return_class, cd) ==
    IF current_return_class \notin DOMAIN cd THEN NotFound(cd)
    ELSE LET fields == _get_all_fields(cd[current_return_class], cd) IN
         IF Len(fields) # 1 THEN NotFound(cd)
         ELSE LET single_field == FieldAt(cd, fields[1]) IN
              IF single_field.kind # "AnnAssign" THEN NotFound(cd)
              ELSE IF single_field.target.kind # "Name" THEN NotFound(cd)
              ELSE LET r == _update_node(single_field.annotation) IN
                   [found |-> TRUE,
                    node |-> r.node,
                    classes |-> r.ids,
                    field |-> single_field.target.id,
                    cd |-> [cd EXCEPT ![fields[1][1]].body[fields[1][2]].annotation =
                                          UpdatedInPlace(single_field.annotation)]]

\* _get_yield_value_from_async_for: NoneV stands for None.
_get_yield_value_from_async_for(stmt) ==
    IF stmt.kind # "AsyncFor" THEN NoneV
    ELSE IF Len(stmt.body) < 1 THEN NoneV
    ELSE IF stmt.body[1].kind # "Expr" THEN NoneV
    ELSE IF stmt.body[1].value.kind # "Yield" THEN NoneV
    ELSE LET yield_value == stmt.body[1].value.value IN
         IF yield_value.kind = "None" THEN NoneV ELSE yield_value

\* _update_imports: the loop over single_field_classes, returning at the
\* first class that is not in class_dict.
RECURSIVE _update_imports(_, _, _, _)
_update_imports(ei, cd, name, single_field_classes) ==
    IF Len(single_field_classes) = 0 THEN ei
    ELSE LET single_field_class == Head(single_field_classes) IN
         IF single_field_class \notin DOMAIN cd THEN ei
         ELSE LET ei1 == IF name \notin DOMAIN ei
                         THEN [k \in DOMAIN ei \cup {name} |->
                                  IF k = name THEN {} ELSE ei[k]]
                         ELSE ei
                  ei2 == [ei1 EXCEPT ![name] = @ \cup {single_field_class}]
              IN  _update_imports(ei2, cd, name, Tail(single_field_classes))

\* method_def.body with its last statement replaced
ReplaceLast(body, stmt) == [body EXCEPT ![Len(body)] = stmt]

Unchanged(method_def, cd, ei) == [method |-> method_def, cd |-> cd, ei |-> ei]

_generate_query_and_mutation_client_method(method_def, return_stmt, cd, ei) ==
    IF return_stmt.value.kind = "None" THEN Unchanged(method_def, cd, ei)
    ELSE IF method_def.returns.kind # "Name" THEN Unchanged(method_def, cd, ei)
    ELSE LET nc == _return_or_yield_node_and_class(method_def.returns.id, cd) IN
         IF ~nc.found THEN Unchanged(method_def, nc.cd, ei)
         ELSE [method |-> [method_def EXCEPT
                    !.returns = nc.node,
                    !.body = ReplaceLast(method_def.body,
                                generate_return(generate_attribute(return_stmt.value, nc.field)))],
               cd |-> nc.cd,
               ei |-> _update_imports(ei, nc.cd, method_def.name, nc.classes)]

_generate_subscription_client_method(method_def, async_for_stmt, cd, ei) ==
    IF method_def.returns.kind # "Subscript" THEN Unchanged(method_def, cd, ei)
    ELSE IF method_def.returns.slice.kind # "Name" THEN Unchanged(method_def, cd, ei)
    ELSE LET nc == _return_or_yield_node_and_class(method_def.returns.slice.id, cd) IN
         IF ~nc.found THEN Unchanged(method_def, nc.cd, ei)
         ELSE LET previous_yield_value ==
                      _get_yield_value_from_async_for(method_def.body[Len(method_def.body)]) IN
              IF previous_yield_value.kind = "None" THEN Unchanged(method_def, nc.cd, ei)
              ELSE [method |-> [method_def EXCEPT
                         !.returns = generate_subscript(generate_name("AsyncIterator"), nc.node),
                         !.body = ReplaceLast(method_def.body,
                                     generate_async_for(async_for_stmt.target, async_for_stmt.iter,
                                        generate_expr(generate_yield(
                                            generate_attribute(previous_yield_value, nc.field)))))],
                    cd |-> nc.cd,
                    ei |-> _update_imports(ei, nc.cd, method_def.name, nc.classes)]

\* ShorterResultsPlugin.generate_client_method
ClientMethod(method_def, cd, ei) ==
    IF Len(method_def.body) < 1 THEN Unchanged(method_def, cd, ei)
    ELSE LET last_stmt == method_def.body[Len(method_def.body)] IN
         IF last_stmt.kind = "Return"
         THEN _generate_query_and_mutation_client_method(method_def, last_stmt, cd, ei)
         ELSE IF last_stmt.kind = "AsyncFor"
         THEN _generate_subscription_client_method(method_def, last_stmt, cd, ei)
         ELSE Unchanged(method_def, cd, ei)

\* generate_client_module leaving the loop over the additional imports after
\* the first one
ClientModule_first_only(module, ei, order) ==
    IF Cardinality(DOMAIN ei) = 0 THEN module
    ELSE [i \in 1..Len(module) |->
            IF module[i].kind # "ImportFrom" THEN module[i]
            ELSE IF module[i].module \notin DOMAIN ei THEN module[i]
            ELSE [module[i] EXCEPT !.names =
                     Append(@, alias(order[module[i].module][1]))]]

\* ShorterResultsPlugin.generate_client_module: order[k] is the order in
\* which Python iterates over the set extended_imports[k].
ClientModule(module, ei, order) ==
    IF Cardinality(DOMAIN ei) = 0 THEN module
    ELSE [i \in 1..Len(module) |->
            IF module[i].kind # "ImportFrom" THEN module[i]
            ELSE IF module[i].module \notin DOMAIN ei THEN module[i]
            ELSE LET additional == order[module[i].module] IN
                 [module[i] EXCEPT !.names =
                     @ \o [j \in 1..Len(additional) |-> alias(additional[j])]]]

IterationOrders(ei) ==
    {o \in [DOMAIN ei -> UNION {Perms(ei[k]) : k \in DOMAIN ei}] :
        \A k \in DOMAIN ei : o[k] \in Perms(ei[k])}

----------------------------------------------------------------------------
(* What the host hands to the hooks *)

Named(s) == Name(Lit(s))
Optional(t) == Subscript(generate_name("Optional"), t)
List(t) == Subscript(generate_name("List"), t)
Union(ts) == Subscript(generate_name("Union"), Tuple(ts))
Field(s, t) == AnnAssign(generate_name(s), t)
PydanticBase == Attribute(generate_name("pydantic"), Id("BaseModel"))
HostBases == <<generate_name("Base"), PydanticBase, generate_name("BaseModel")>>

\* Annotations of the single field of the generated class Wrapper
FieldTypes ==
    { Named("User"),
      Optional(List(Named("User"))),
      Union(<<generate_name("str"), Named("User")>>),
      Union(<<Named("User"), Named("Base")>>),
      Constant("User"),
      Optional(Constant("User")) }

\* Result classes the host generates.  A class whose body is one `pass`
\* has no field of its own; with HostBases a class inherits from Base, from
\* pydantic.BaseModel (not a Name) and from BaseModel (a Name that is never
\* registered).  Base is generated with one field, or with none and User
\* as its base.  No class is its own ancestor.
ClassPool ==
    { ClassDef(Id("Wrapper"), <<generate_name("BaseModel")>>, <<Field("me", t)>>) : t \in FieldTypes }
    \cup
    { ClassDef(Id("Wrapper"), HostBases, <<Pass>>),
      ClassDef(Id("Wrapper"), HostBases, <<Pass, Field("b", generate_name("int"))>>),
      ClassDef(Id("User"), <<generate_name("BaseModel")>>,
               <<Field("id", generate_name("int")), Field("name", generate_name("str"))>>),
      ClassDef(Id("Base"), <<PydanticBase>>, <<Field("a", Named("User"))>>),
      ClassDef(Id("Base"), <<generate_name("User")>>, <<Pass>>) }

Data == generate_name("data")
Msg == generate_name("msg")
Src == generate_name("src")
Loop(body) == AsyncFor(Msg, Src, body)
AsyncIterator(t) == Subscript(generate_name("AsyncIterator"), t)

\* Client methods the host generates
MethodPool ==
    { \* Shape A: the last statement returns an expression
      FunctionDef("get_user", generate_name("Wrapper"), <<Pass, Return(Data)>>),
      \* Shape B: the last statement is an async for whose body is one yield
      FunctionDef("sub_event", AsyncIterator(generate_name("Wrapper")),
                  <<Pass, Loop(<<Expr(Yield(Msg))>>)>>),
      \* an async for whose body holds a yield and one more statement
      FunctionDef("sub_multi", AsyncIterator(generate_name("Wrapper")),
                  <<Loop(<<Expr(Yield(Msg)), Expr(Data)>>)>>),
      \* other shapes
      FunctionDef("empty", generate_name("Wrapper"), <<>>),
      FunctionDef("last_expr", generate_name("Wrapper"), <<Return(Data), Expr(Data)>>),
      FunctionDef("bare_return", generate_name("Wrapper"), <<Return(NoneV)>>),
      FunctionDef("opt_return", Optional(generate_name("Wrapper")), <<Return(Data)>>),
      FunctionDef("loop_name", generate_name("Wrapper"), <<Loop(<<Expr(Yield(Msg))>>)>>),
      FunctionDef("loop_nested", AsyncIterator(Optional(generate_name("Wrapper"))),
                  <<Loop(<<Expr(Yield(Msg))>>)>>),
      FunctionDef("loop_empty", AsyncIterator(generate_name("Wrapper")), <<Loop(<<>>)>>),
      FunctionDef("loop_pass", AsyncIterator(generate_name("Wrapper")), <<Loop(<<Pass>>)>>),
      FunctionDef("loop_expr", AsyncIterator(generate_name("Wrapper")), <<Loop(<<Expr(Data)>>)>>),
      FunctionDef("loop_yield_none", AsyncIterator(generate_name("Wrapper")),
                  <<Loop(<<Expr(Yield(NoneV))>>)>>) }

\* Client modules the host assembles: which operation modules they import from
ModuleOf(froms) ==
    <<Import(<<alias(Id("typing"))>>)>> \o
    [i \in 1..Len(froms) |-> ImportFrom(froms[i], <<alias(Id("Result"))>>)] \o
    <<Pass>>

ModulePool ==
    { ModuleOf(<<"get_user", "sub_event">>),
      ModuleOf(<<"sub_multi", "other", "sub_multi">>),
      ModuleOf(<<>>) }

----------------------------------------------------------------------------
(* The hooks *)

\* No hook has a raise statement: a call that returns has raised = FALSE.
NoCall == [op |-> "none", arg |-> NoneV, ret |-> NoneV, raised |-> FALSE]

Init ==
    /\ class_dict = <<>>
    /\ extended_imports = <<>>
    /\ call = NoCall
    /\ stack = <<>>
    /\ resolved = NoneV

generate_result_class(class_def) ==
    /\ class_dict' = [n \in DOMAIN class_dict \cup {class_def.name} |->
                         IF n = class_def.name THEN class_def ELSE class_dict[n]]
    /\ call' = [op |-> "generate_result_class", arg |-> class_def, ret |-> class_def,
                raised |-> FALSE]
    /\ UNCHANGED <<extended_imports, stack, resolved>>

generate_client_method(method_def) ==
    LET r == ClientMethod(method_def, class_dict, extended_imports) IN
    /\ class_dict' = r.cd
    /\ extended_imports' = r.ei
    /\ call' = [op |-> "generate_client_method", arg |-> method_def, ret |-> r.method,
                raised |-> FALSE]
    /\ UNCHANGED <<stack, resolved>>

generate_client_module(module) ==
    \E order \in IterationOrders(extended_imports) :
        /\ call' = [op |-> "generate_client_module", arg |-> module,
                    ret |-> ClientModule(module, extended_imports, order),
                    raised |-> FALSE]
        /\ UNCHANGED <<class_dict, extended_imports, stack, resolved>>

Next ==
    \/ \E class_def \in ClassPool : generate_result_class(class_def)
    \/ \E method_def \in MethodPool : generate_client_method(method_def)
    \/ \E module \in ModulePool : generate_client_module(module)

Spec == Init /\ [][Next]_vars

----------------------------------------------------------------------------
(* _get_all_fields step by step: one frame per active call.  The host may  *)
(* hand any class definition to generate_result_class, also one that names *)
(* itself, or a class that names it, as a base.                            *)

RecursionLimit == 6

Cls(name, bases, fields) ==
    ClassDef(Id(name), [i \in 1..Len(bases) |-> generate_name(bases[i])],
             [i \in 1..Len(fields) |-> Field(fields[i], generate_name("int"))])

ResolvePool ==
    { Cls("A", <<"A">>, <<"x">>),
      Cls("B", <<"C">>, <<"y">>),
      Cls("C", <<"B", "E">>, <<"z">>),
      Cls("D", <<"E", "F">>, <<>>),
      Cls("E", <<>>, <<"v">>),
      ClassDef(Id("F"), <<PydanticBase, generate_name("E")>>, <<Pass, Field("w", generate_name("int"))>>) }

Frame(class_def) == [class_def |-> class_def, base |-> 1, fields |-> <<>>]
Top == stack[Len(stack)]
OwnFields(class_def) ==
    SelectSeq([i \in 1..Len(class_def.body) |-> <<class_def.name, i>>],
              LAMBDA at : class_def.body[at[2]].kind = "AnnAssign")

register(class_def) ==
    /\ stack = <<>>
    /\ generate_result_class(class_def)

\* _return_or_yield_node_and_class calls _get_all_fields on a registered class
resolve_start(name) ==
    /\ stack = <<>>
    /\ name \in DOMAIN class_dict
    /\ stack' = <<Frame(class_dict[name])>>
    /\ resolved' = [kind |-> "running", name |-> name]
    /\ UNCHANGED <<class_dict, extended_imports, call>>

\* `continue`: the base is not a Name, or names no registered class
skip_base ==
    /\ stack # <<>>
    /\ Top.base <= Len(Top.class_def.bases)
    /\ LET base == Top.class_def.bases[Top.base] IN
           IF base.kind # "Name" THEN TRUE ELSE base.id \notin DOMAIN class_dict
    /\ stack' = [stack EXCEPT ![Len(stack)].base = @ + 1]
    /\ UNCHANGED <<class_dict, extended_imports, call, resolved>>

\* the recursive call on a registered base
call_base ==
    /\ stack # <<>>
    /\ Top.base <= Len(Top.class_def.bases)
    /\ LET base == Top.class_def.bases[Top.base] IN
         /\ base.kind = "Name"
         /\ base.id \in DOMAIN class_dict
         /\ Len(stack) < RecursionLimit
         /\ stack' = Append(stack, Frame(class_dict[base.id]))
    /\ UNCHANGED <<class_dict, extended_imports, call, resolved>>

\* the interpreter refuses a call beyond its recursion limit: RecursionError
\* unwinds every frame
recursion_error ==
    /\ stack # <<>>
    /\ Top.base <= Len(Top.class_def.bases)
    /\ LET base == Top.class_def.bases[Top.base] IN
         /\ base.kind = "Name"
         /\ base.id \in DOMAIN class_dict
         /\ Len(stack) >= RecursionLimit
    /\ stack' = <<>>
    /\ resolved' = [kind |-> "RecursionError", name |-> resolved.name]
    /\ UNCHANGED <<class_dict, extended_imports, call>>

\* all bases done: append the own fields and return to the caller
return_fields ==
    /\ stack # <<>>
    /\ Top.base > Len(Top.class_def.bases)
    /\ LET fields == Top.fields \o OwnFields(Top.class_def) IN
         IF Len(stack) = 1
         THEN /\ stack' = <<>>
              /\ resolved' = [kind |-> "fields", name |-> resolved.name, fields |-> fields]
         ELSE /\ stack' = [SubSeq(stack, 1, Len(stack) - 1) EXCEPT
                              ![Len(stack) - 1].fields = @ \o fields,
                              ![Len(stack) - 1].base = @ + 1]
              /\ UNCHANGED resolved
    /\ UNCHANGED <<class_dict, extended_imports, call>>

NextResolve ==
    \/ \E class_def \in ResolvePool : register(class_def)
    \/ \E name \in DOMAIN class_dict : resolve_start(name)
    \/ skip_base
    \/ call_base
    \/ recursion_error
    \/ return_fields

SpecResolve == Init /\ [][NextResolve]_vars

----------------------------------------------------------------------------
(* The terms of the design (sections 4.2 - 4.5 of spec.md), stated on the  *)
(* trees the hooks receive, for the properties below.                      *)

Last(seq) == seq[Len(seq)]
Front(seq) == SubSeq(seq, 1, Len(seq) - 1)
Range(seq) == {seq[i] : i \in 1..Len(seq)}

\* 4.2: fields of each registered base, in base order, then the own fields
RECURSIVE ResolvedFields(_, _)
ResolvedFields(name, registry) ==
    LET def == registry[name]
        of_base(i) == IF def.bases[i].kind = "Name" /\ def.bases[i].id \in DOMAIN registry
                      THEN ResolvedFields(def.bases[i].id, registry)
                      ELSE <<>>
    IN  Concat([i \in 1..Len(def.bases) |-> of_base(i)])
        \o SelectSeq(def.body, LAMBDA stmt : stmt.kind = "AnnAssign")

\* 4.3: registered, and exactly one resolved field
Collapsible(name, registry) ==
    IF name \in DOMAIN registry THEN Len(ResolvedFields(name, registry)) = 1 ELSE FALSE

\* 4.4: a quoted forward reference is unquoted; any other name is kept
Unquoted(text) ==
    IF Len(text) = 3 /\ text[1] = DQ /\ text[3] = DQ THEN Id(text[2]) ELSE text

RECURSIVE Rewritten(_)
Rewritten(expr) ==
    CASE expr.kind = "Name" -> Name(Unquoted(expr.id))
      [] expr.kind = "Subscript" -> Subscript(expr.value, Rewritten(expr.slice))
      [] expr.kind = "Tuple" -> Tuple([i \in 1..Len(expr.elts) |-> Rewritten(expr.elts[i])])
      [] OTHER -> expr

RECURSIVE ReferencedNames(_)
ReferencedNames(expr) ==
    CASE expr.kind = "Name" -> {Unquoted(expr.id)}
      [] expr.kind = "Subscript" -> ReferencedNames(expr.slice)
      [] expr.kind = "Tuple" -> UNION {ReferencedNames(expr.elts[i]) : i \in 1..Len(expr.elts)}
      [] OTHER -> {}

\* every unrecognized sub-expression of orig is found at its place in new
RECURSIVE UnrecognizedKept(_, _)
UnrecognizedKept(orig, new) ==
    CASE orig.kind = "Name" -> TRUE
      [] orig.kind = "Subscript" ->
           IF new.kind = "Subscript" THEN UnrecognizedKept(orig.slice, new.slice) ELSE FALSE
      [] orig.kind = "Tuple" ->
           IF new.kind = "Tuple" /\ Len(new.elts) = Len(orig.elts)
           THEN \A i \in 1..Len(orig.elts) : UnrecognizedKept(orig.elts[i], new.elts[i])
           ELSE FALSE
      [] OTHER -> new = orig

RECURSIVE AllRecognized(_)
AllRecognized(expr) ==
    CASE expr.kind = "Name" -> TRUE
      [] expr.kind = "Subscript" -> AllRecognized(expr.slice)
      [] expr.kind = "Tuple" -> \A i \in 1..Len(expr.elts) : AllRecognized(expr.elts[i])
      [] OTHER -> FALSE

\* 4.5: the two recognized method shapes
ShapeA(m) ==
    IF Len(m.body) = 0 THEN FALSE
    ELSE IF Last(m.body).kind # "Return" THEN FALSE
    ELSE Last(m.body).value.kind # "None" /\ m.returns.kind = "Name"

SingleYield(stmt) ==
    IF stmt.kind # "AsyncFor" \/ Len(stmt.body) # 1 THEN FALSE
    ELSE IF stmt.body[1].kind # "Expr" THEN FALSE
    ELSE IF stmt.body[1].value.kind # "Yield" THEN FALSE
    ELSE stmt.body[1].value.value.kind # "None"

ShapeB(m) ==
    IF Len(m.body) = 0 THEN FALSE
    ELSE IF m.returns.kind # "Subscript" THEN FALSE
    ELSE m.returns.slice.kind = "Name" /\ SingleYield(Last(m.body))

RootName(m) == IF m.returns.kind = "Name" THEN m.returns.id ELSE m.returns.slice.id
SoleField(m, registry) == ResolvedFields(RootName(m), registry)[1]

\* a step that is a call of generate_client_method on method m
Rewrites(m) == call'.op = "generate_client_method" /\ call'.arg = m

\* a step that collapses a method of shape A or B
Collapses(m) ==
    /\ Rewrites(m)
    /\ ShapeA(m) \/ ShapeB(m)
    /\ Collapsible(RootName(m), class_dict)

----------------------------------------------------------------------------
(* Properties *)

\* C1: a method of shape A (last statement `return E`, declared return type
\* the name R) whose R is registered with exactly one resolved field f: T
\* comes back with the declared return type the rewritten T, the last
\* statement `return E.f` and every earlier statement as it was.
C1_ShapeACollapse ==
    [][\A m \in MethodPool :
         (Collapses(m) /\ ShapeA(m)) =>
            LET f == SoleField(m, class_dict) IN
            /\ call'.ret.returns = Rewritten(f.annotation)
            /\ Len(call'.ret.body) = Len(m.body)
            /\ Last(call'.ret.body) = Return(Attribute(Last(m.body).value, f.target.id))
            /\ Front(call'.ret.body) = Front(m.body)]_vars

\* C1 on field types built from names, subscripts and tuples only.
ShapeACollapseRecognized ==
    [][\A m \in MethodPool :
         (Collapses(m) /\ ShapeA(m) /\ AllRecognized(SoleField(m, class_dict).annotation)) =>
            LET f == SoleField(m, class_dict) IN
            /\ call'.ret.returns = Rewritten(f.annotation)
            /\ call'.ret.body = Append(Front(m.body),
                                       Return(Attribute(Last(m.body).value, f.target.id)))]_vars

\* C2: a method of shape B (declared return type G[R], last statement an
\* async for whose body is one `yield Y`) whose R is registered with exactly
\* one resolved field f: T comes back with the declared return type
\* AsyncIterator[rewritten T] and a loop with the same target and source
\* whose body is exactly `yield Y.f`.
C2_ShapeBCollapse ==
    [][\A m \in MethodPool :
         (Collapses(m) /\ ShapeB(m)) =>
            LET f == SoleField(m, class_dict)
                loop == Last(m.body)
                Y == loop.body[1].value.value
            IN
            /\ call'.ret.returns = AsyncIterator(Rewritten(f.annotation))
            /\ Len(call'.ret.body) = Len(m.body)
            /\ Last(call'.ret.body) =
                   AsyncFor(loop.target, loop.iter, <<Expr(Yield(Attribute(Y, f.target.id)))>>)]_vars

\* C2 on field types built from names, subscripts and tuples only.
ShapeBCollapseRecognized ==
    [][\A m \in MethodPool :
         (Collapses(m) /\ ShapeB(m) /\ AllRecognized(SoleField(m, class_dict).annotation)) =>
            LET f == SoleField(m, class_dict)
                loop == Last(m.body)
                Y == loop.body[1].value.value
            IN
            /\ call'.ret.returns = AsyncIterator(Rewritten(f.annotation))
            /\ call'.ret.body = Append(Front(m.body),
                   AsyncFor(loop.target, loop.iter, <<Expr(Yield(Attribute(Y, f.target.id)))>>))]_vars

\* C3: a method of shape A or B is collapsed if and only if its root type
\* is registered and its resolved field list (registered bases first, in
\* base order, then own fields) has exactly one element; with zero fields or
\* with two or more, inherited ones counted, the method comes back unchanged.
C3_CollapsibilityThreshold ==
    [][\A m \in MethodPool :
         (Rewrites(m) /\ (ShapeA(m) \/ ShapeB(m))) =>
            /\ (call'.ret # m) <=> Collapsible(RootName(m), class_dict)
            /\ ~Collapsible(RootName(m), class_dict) =>
                   /\ call'.ret.returns = m.returns
                   /\ Last(call'.ret.body) = Last(m.body)]_vars

\* C3 witness: a method returning Wrapper came back unchanged while Wrapper
\* has two resolved fields, one of them inherited from Base.
C3_Witness ==
    /\ call.op = "generate_client_method"
    /\ ShapeA(call.arg)
    /\ call.ret = call.arg
    /\ Id("Wrapper") \in DOMAIN class_dict
    /\ Id("Base") \in DOMAIN class_dict
    /\ Len(ResolvedFields(Id("Wrapper"), class_dict)) = 2
    /\ Len(ResolvedFields(Id("Base"), class_dict)) = 1

\* C4: when a method is collapsed, every name the rewritten field type
\* refers to that is in the registry is recorded as a required import of
\* the method, wherever it stands in the list of names.
C4_ImportsComplete ==
    [][\A m \in MethodPool :
         Collapses(m) =>
            \A n \in ReferencedNames(SoleField(m, class_dict).annotation) :
                n \in DOMAIN class_dict =>
                    /\ m.name \in DOMAIN extended_imports'
                    /\ n \in extended_imports'[m.name]]_vars

\* C5: generate_client_module appends every name recorded for a method to
\* each import-from statement that imports from the method's module, keeps
\* the names the statement had, and leaves every other statement alone.
C5_ImportsReconciled ==
    call.op = "generate_client_module" =>
        /\ Len(call.ret) = Len(call.arg)
        /\ \A i \in 1..Len(call.arg) :
             LET before == call.arg[i]
                 after == call.ret[i]
             IN  IF before.kind = "ImportFrom" /\ before.module \in DOMAIN extended_imports
                 THEN /\ after.kind = "ImportFrom"
                      /\ after.module = before.module
                      /\ SubSeq(after.names, 1, Len(before.names)) = before.names
                      /\ \A n \in extended_imports[before.module] : alias(n) \in Range(after.names)
                 ELSE after = before

\* C5 witness: two names were recorded for get_user and the client module
\* imports from get_user.
C5_Witness ==
    /\ call.op = "generate_client_module"
    /\ "get_user" \in DOMAIN extended_imports
    /\ extended_imports["get_user"] = {Id("User"), Id("Base")}
    /\ \E i \in 1..Len(call.arg) :
         call.arg[i].kind = "ImportFrom" /\ call.arg[i].module = "get_user"

\* C6: a method whose last statement is an async for with more than one
\* statement in its body comes back unchanged and records no import.
C6_MultiStatementLoopUntouched ==
    [][\A m \in MethodPool :
         (/\ Rewrites(m)
          /\ Len(m.body) > 0
          /\ Last(m.body).kind = "AsyncFor"
          /\ Len(Last(m.body).body) > 1) =>
            /\ call'.ret = m
            /\ extended_imports' = extended_imports]_vars

\* C7: generate_client_module with imports recorded for a module that the
\* client module has no import-from statement for ends in a failure.
C7_MissingImportFails ==
    (/\ call.op = "generate_client_module"
     /\ \E k \in DOMAIN extended_imports :
          \A i \in 1..Len(call.arg) :
              ~(call.arg[i].kind = "ImportFrom" /\ call.arg[i].module = k)) =>
        call.raised

\* C8: resolving the fields of a registered type finishes with a field
\* list, not-found or a cycle error on every registry; it never recurses
\* until the interpreter gives up.
C8_ResolutionFinishes == resolved.kind # "RecursionError"

\* C9: a call of generate_client_method leaves every registered class
\* definition as it was.
C9_RegistryUntouched ==
    [][call'.op = "generate_client_method" => class_dict' = class_dict]_vars

\* C10: every sub-expression of the field type that is no name, subscript
\* or tuple is still in the declared return type of the collapsed method.
C10_UnrecognizedPassThrough ==
    [][\A m \in MethodPool :
         Collapses(m) =>
            LET T == SoleField(m, class_dict).annotation
                declared == IF ShapeA(m) THEN call'.ret.returns ELSE call'.ret.returns.slice
            IN  UnrecognizedKept(T, declared)]_vars

\* An annotation that generate_client_method has rewritten is left as it is
\* by another rewrite.
RewriteSettles ==
    [][call'.op = "generate_client_method" =>
          \A name \in DOMAIN class_dict :
              \A i \in 1..Len(class_dict[name].body) :
                  LET before == class_dict[name].body[i]
                      after == class_dict'[name].body[i]
                  IN  (before.kind = "AnnAssign" /\ after # before) =>
                          UpdatedInPlace(after.annotation) = after.annotation]_vars

\* The step-by-step resolver computes what _get_all_fields computes.
ResolverAgrees ==
    [][(resolved.kind = "running" /\ resolved'.kind = "fields") =>
          resolved'.fields = _get_all_fields(class_dict[resolved.name], class_dict)]_vars

====
